---- MODULE Spec2Model ----
(***************************************************************************)
(* Capture / record / upload orchestration of the mock-interview front     *)
(* end.  The module models four screens of the repository:                 *)
(*                                                                         *)
(*   Spec       the VideoToText screen (src/src/VideoToText.tsx:184-561),  *)
(*              webcam + upload modes, with its rendered button guards;    *)
(*   SpecApp    the earlier App screen with the same two modes             *)
(*              (src/unnamed/part_000);                                    *)
(*   SpecAudio  the AudioToText upload screen (src/unnamed/part_003);      *)
(*   SpecRec    the Media Recorder screen (src/src/App.tsx).               *)
(*                                                                         *)
(* React state and refs are the variables.  A handler is an operator from  *)
(* a state record to a state record, so that a handler calling another     *)
(* (handleModeChange -> stopMediaStream -> requestPermissions) composes    *)
(* as in the source; an action applies one handler under the guard the     *)
(* rendered element puts on it (disabled=..., conditional rendering).      *)
(* Every await is a suspension point: the part before it is one action,    *)
(* the settlement of the awaited promise another.                          *)
(***************************************************************************)
EXTENDS Integers, Sequences, FiniteSets, TLC

VARIABLES
    \* React state of the capture screens
    status, inputMode, hasPermissions, permissionError, transcription,
    whisperText, isProcessing, uploadedFile, lastRecording,
    \* refs
    mediaStreamRef, recorderRef,
    \* the component's life cycle and the native file dialog
    mountState, fileDialogOpen,
    \* navigator.mediaDevices: tracks not yet stopped, getUserMedia calls pending
    liveStreams, pendingAcq,
    \* RecordRTC: recorder behind recorderRef, its stream, stop callbacks pending
    recorderStream, recorderStopped, pendingStops, extraCallbacks,
    \* fetch: requests in flight
    inflight,
    \* whether the handler that ran last ended with an exception nobody caught
    uncaught,
    \* the handler that ran last, with its argument
    lastEvent,
    \* the clicks made so far (counted in App only)
    clicks,
    \* React state of the AudioToText screen (its transcription is the
    \* variable of that name above), the transcribeAudio calls pending, and
    \* the handler that ran last with the file it was given
    selectedFile, isTranscribing, pendingTranscribe, lastAudioEvent,
    \* services/api.ts: the calls whose fetch has not settled, and the call
    \* that returned last with what it returned
    apiPending, apiReturned,
    \* the Media Recorder screen (src/src/App.tsx): its React state, refs,
    \* timers, pending promises and downloads in one record, and the handler
    \* that ran last
    rec, lastRecEvent

captureVars ==
    << status, inputMode, hasPermissions, permissionError, transcription,
       whisperText, isProcessing, uploadedFile, lastRecording, mediaStreamRef,
       recorderRef, mountState, fileDialogOpen, liveStreams, pendingAcq,
       recorderStream, recorderStopped, pendingStops, extraCallbacks, inflight,
       uncaught >>

audioVars == << selectedFile, isTranscribing, pendingTranscribe, lastAudioEvent >>

apiVars == << apiPending, apiReturned >>

recVars == << rec, lastRecEvent >>

vars == << captureVars, lastEvent, clicks, audioVars, apiVars, recVars >>

----------------------------------------------------------------------------
(* Bounds of the model *)

\* streams granted and not yet stopped, plus getUserMedia calls still pending
MaxStreams == 2
\* callbacks a recorder runs beyond the one its first stop registered
MaxExtraCallbacks == 1
\* clicks in one run of App, whose buttons stay enabled while a recording, an
\* acquisition or (for the mode toggle) a request is under way
MaxClicks == 6
\* the same, in the runs of SpecStray
MaxStrayCallbacks == 2
\* recorders created in one run of the Media Recorder screen
MaxRecordings == 2
\* ticks of a countdown timer that is still running after it reached zero
MaxOverrun == 1

----------------------------------------------------------------------------
(* Values *)

\* null in mediaStreamRef / recorderRef / lastRecording
NoStream == 0
NoRecorder == 0
NoBlob == 0
\* null in uploadedFile
NoFile == "<null>"

\* Texts are sequences of string pieces, so that template literals concatenate
EmptyText == << >>
\* a property that is absent from a parsed body (undefined)
Undefined == << "<undefined>" >>

Falsy(t) == t = EmptyText \/ t = Undefined

\* x || y on texts
Or(x, y) == IF Falsy(x) THEN y ELSE x

PermissionErrorText ==
    << "Failed to access camera/microphone. Please grant permissions and try again." >>
NoAVPrediction == << "No AV Prediction received." >>
NoWhisper == << "No Whisper Transcription received." >>
ProcessingFailed == << "Processing Failed." >>
ErrorPrefix == << "Error: " >>
RecordedFileName == "recorded_video.webm"
\* the key the source is appended to the FormData under
FormField == "video_file"

\* `Server error: ${response.status}`
ServerErrorText(st) == << "Server error: ", ToString(st) >>

\* messages of the errors the platform throws
FetchFailedMessage == << "Failed to fetch" >>
JsonSyntaxMessage == << "Unexpected end of JSON input" >>
NullPropertyMessage == << "Cannot read properties of null" >>

Modes == { "webcam", "upload" }
\* who awaits a pending getUserMedia: nobody, or a suspended startRecording
Continuations == { "none", "startRecording" }
VideoFiles == { "clip.mp4", "talk.webm" }

Statuses == { 200, 404, 500 }
ResponseOk(st) == st >= 200 /\ st <= 299

\* A response body: not JSON (or empty), the JSON value null, another JSON
\* value that is no object (a number, a string, an array: every property read
\* on it gives undefined), or a JSON object whose fields are each absent,
\* empty or a text.
DetailValues == { Undefined, EmptyText, << "model overloaded" >> }
PredictionValues == { Undefined, EmptyText, << "HELLO" >> }
WhisperValues == { Undefined, EmptyText, << "hello there" >> }

Body(kind, d, p, w) ==
    [ kind |-> kind, detail |-> d, model_prediction |-> p,
      whisper_transcription |-> w ]

InvalidBody == Body("invalid", Undefined, Undefined, Undefined)
NullBody == Body("null", Undefined, Undefined, Undefined)
ScalarBody == Body("scalar", Undefined, Undefined, Undefined)

\* the bodies a server sends with an error status, and with a success status
ErrorBodies ==
    { InvalidBody, NullBody, ScalarBody }
    \cup { Body("object", d, Undefined, Undefined) : d \in DetailValues }
SuccessBodies ==
    { InvalidBody, NullBody, ScalarBody }
    \cup { Body("object", Undefined, p, w) :
             p \in PredictionValues, w \in WhisperValues }

\* What fetch settles with: a rejection (no response) or a response
NetworkFailure == [ type |-> "network", status |-> 0, body |-> InvalidBody ]
Http(st, b) == [ type |-> "http", status |-> st, body |-> b ]
Responses ==
    { NetworkFailure }
    \cup { Http(st, b) : st \in { x \in Statuses : ResponseOk(x) },
                         b \in SuccessBodies }
    \cup { Http(st, b) : st \in { x \in Statuses : ~ResponseOk(x) },
                         b \in ErrorBodies }

\* The responses a run settles its requests with: one for each way
\* processVideo can end (fetch rejects, both fields present, fields absent or
\* empty, an error status with a detail, an error status with no JSON body).
\* The other members of Responses end the same way with another text.
SettledResponses ==
    { NetworkFailure,
      Http(200, Body("object", Undefined, << "HELLO" >>, << "hello there" >>)),
      Http(200, Body("object", Undefined, Undefined, EmptyText)),
      Http(500, Body("object", << "model overloaded" >>, Undefined, Undefined)),
      Http(500, InvalidBody) }

Event(op, arg) == [ op |-> op, arg |-> arg ]

----------------------------------------------------------------------------
(* AudioToText (part_003): values *)

\* A file name is the sequence of its characters
UpperCase ==
    << "A", "B", "C", "D", "E", "F", "G", "H", "I", "J", "K", "L", "M",
       "N", "O", "P", "Q", "R", "S", "T", "U", "V", "W", "X", "Y", "Z" >>
LowerCase ==
    << "a", "b", "c", "d", "e", "f", "g", "h", "i", "j", "k", "l", "m",
       "n", "o", "p", "q", "r", "s", "t", "u", "v", "w", "x", "y", "z" >>

toLowerCase(str) ==
    [ i \in 1 .. Len(str) |->
        IF \E k \in 1 .. Len(UpperCase) : UpperCase[k] = str[i]
        THEN LowerCase[CHOOSE k \in 1 .. Len(UpperCase) : UpperCase[k] = str[i]]
        ELSE str[i] ]

endsWith(str, suffix) ==
    /\ Len(suffix) <= Len(str)
    /\ SubSeq(str, Len(str) - Len(suffix) + 1, Len(str)) = suffix

includes(str, part) ==
    \E i \in 1 .. (Len(str) - Len(part) + 1) :
        SubSeq(str, i, i + Len(part) - 1) = part

acceptedFormats ==
    << << ".", "m", "p", "3" >>, << ".", "w", "a", "v" >>, << ".", "m", "4", "a" >> >>
maxFileSize == 50 * 1024 * 1024

\* null in selectedFile
NoAudioFile == [ name |-> << >>, size |-> -1 ]

AudioNames ==
    { << "a", ".", "m", "p", "3" >>,
      << "A", ".", "M", "P", "3" >>,
      << "b", ".", "w", "a", "v" >>,
      << "c", ".", "m", "4", "a" >>,
      << "e", "r", "r", "o", "r", ".", "m", "p", "3" >>,
      << "c", "l", "i", "p", ".", "m", "o", "v" >>,
      << "t", ".", "W", "a", "v" >>,
      << "a", ".", "m", "p", "3", ".", "t", "x", "t" >>,
      << "m", "p", "3" >> }
AudioSizes == { 0, maxFileSize - 1, maxFileSize, maxFileSize + 1 }
AudioFiles == { [ name |-> n, size |-> z ] : n \in AudioNames, z \in AudioSizes }

TranscriptionFailedText == << "Sorry, transcription failed. Please try again." >>
\* result.text of the transcribeAudio placeholder
TranscriptionResultText(file) ==
    << "[Transcription Result for " >> \o file.name
        \o << "]: Your audio has been successfully processed by the transcription service. The result is a high-fidelity conversion of spoken words into text, ready for review and download." >>

AudioEvent(op, file) == [ op |-> op, file |-> file ]

----------------------------------------------------------------------------
(* The state record the handlers work on *)

St ==
    [ status |-> status, inputMode |-> inputMode,
      hasPermissions |-> hasPermissions, permissionError |-> permissionError,
      transcription |-> transcription, whisperText |-> whisperText,
      isProcessing |-> isProcessing, uploadedFile |-> uploadedFile,
      lastRecording |-> lastRecording, mediaStreamRef |-> mediaStreamRef,
      recorderRef |-> recorderRef, mountState |-> mountState,
      fileDialogOpen |-> fileDialogOpen, liveStreams |-> liveStreams,
      pendingAcq |-> pendingAcq, recorderStream |-> recorderStream,
      recorderStopped |-> recorderStopped, pendingStops |-> pendingStops,
      extraCallbacks |-> extraCallbacks, inflight |-> inflight, uncaught |-> FALSE ]

Assign(n) ==
    /\ status' = n.status
    /\ inputMode' = n.inputMode
    /\ hasPermissions' = n.hasPermissions
    /\ permissionError' = n.permissionError
    /\ transcription' = n.transcription
    /\ whisperText' = n.whisperText
    /\ isProcessing' = n.isProcessing
    /\ uploadedFile' = n.uploadedFile
    /\ lastRecording' = n.lastRecording
    /\ mediaStreamRef' = n.mediaStreamRef
    /\ recorderRef' = n.recorderRef
    /\ mountState' = n.mountState
    /\ fileDialogOpen' = n.fileDialogOpen
    /\ liveStreams' = n.liveStreams
    /\ pendingAcq' = n.pendingAcq
    /\ recorderStream' = n.recorderStream
    /\ recorderStopped' = n.recorderStopped
    /\ pendingStops' = n.pendingStops
    /\ extraCallbacks' = n.extraCallbacks
    /\ inflight' = n.inflight
    /\ uncaught' = n.uncaught

\* React drops a state update made after the component was unmounted: the
\* useState values stay, the refs and the platform objects change.
Committed(s, n) ==
    IF s.mountState # "unmounted" THEN n
    ELSE [ n EXCEPT !.status = s.status,
                    !.inputMode = s.inputMode,
                    !.hasPermissions = s.hasPermissions,
                    !.permissionError = s.permissionError,
                    !.transcription = s.transcription,
                    !.whisperText = s.whisperText,
                    !.isProcessing = s.isProcessing,
                    !.uploadedFile = s.uploadedFile,
                    !.lastRecording = s.lastRecording ]

\* one step of a capture screen: the handler's result, and which handler it was
Do(n, ev) ==
    /\ Assign(Committed(St, n))
    /\ lastEvent' = ev
    /\ UNCHANGED << clicks, audioVars, apiVars, recVars >>

----------------------------------------------------------------------------
(* VideoToText: handlers *)

\* The objects the platform hands out (streams, recorders with their blobs,
\* requests) are numbered from 1; a new one takes the least number nothing
\* refers to any more.
FreeId(used) == CHOOSE i \in 1 .. (Cardinality(used) + 1) : i \notin used

UsedStreams(s) == s.liveStreams \cup { s.mediaStreamRef, s.recorderStream }

UsedRecorders(s) ==
    { s.recorderRef, s.lastRecording } \cup { r.blob : r \in s.inflight }

UsedRequests(s) == { r.id : r \in s.inflight }

\* stopMediaStream that also clears the stored results
stopMediaStream_ClearsResults(s) ==
    [ s EXCEPT !.liveStreams = @ \ { s.mediaStreamRef },
               !.mediaStreamRef = NoStream,
               !.hasPermissions = FALSE,
               !.transcription = EmptyText,
               !.whisperText = EmptyText ]

\* stop every track of the held stream, clear the handle and the flag
stopMediaStream(s) ==
    [ s EXCEPT !.liveStreams = @ \ { s.mediaStreamRef },
               !.mediaStreamRef = NoStream,
               !.hasPermissions = FALSE ]

\* requestPermissions up to its await of getUserMedia; `cont` names the caller
\* that awaits it ("none" when the promise is dropped)
requestPermissions(s, cont) ==
    LET s1 == stopMediaStream(s) IN
    [ s1 EXCEPT !.permissionError = EmptyText,
                !.pendingAcq[cont] = @ + 1 ]

\* createRecorder without setTranscription("") and setWhisperText("")
createRecorder_KeepsTexts(s) ==
    [ s EXCEPT !.recorderRef = FreeId(UsedRecorders(s)),
               !.recorderStream = s.mediaStreamRef,
               !.recorderStopped = FALSE,
               !.status = "recording",
               !.lastRecording = NoBlob ]

\* startRecording from `new RecordRTC(...)` on: the stream handle is not null
createRecorder(s) ==
    [ s EXCEPT !.recorderRef = FreeId(UsedRecorders(s)),
               !.recorderStream = s.mediaStreamRef,
               !.recorderStopped = FALSE,
               !.status = "recording",
               !.transcription = EmptyText,
               !.whisperText = EmptyText,
               !.lastRecording = NoBlob ]

\* startRecording up to its first suspension
startRecording(s) ==
    IF s.mediaStreamRef = NoStream
    THEN requestPermissions(s, "startRecording")
    ELSE createRecorder(s)

\* startRecording after its await of requestPermissions
startRecordingResumed(s, cont) ==
    IF cont = "startRecording" /\ s.mediaStreamRef # NoStream
    THEN createRecorder(s)
    ELSE s

\* requestPermissions after getUserMedia settled (the video element's play()
\* changes no state), then the caller that awaited it
requestPermissionsGranted(s, cont) ==
    LET stream == FreeId(UsedStreams(s)) IN
    startRecordingResumed(
        [ s EXCEPT !.pendingAcq[cont] = @ - 1,
                   !.liveStreams = @ \cup { stream },
                   !.mediaStreamRef = stream,
                   !.hasPermissions = TRUE,
                   !.uploadedFile = NoFile ],
        cont)

requestPermissionsDenied(s, cont) ==
    startRecordingResumed(
        [ s EXCEPT !.pendingAcq[cont] = @ - 1,
                   !.permissionError = PermissionErrorText,
                   !.hasPermissions = FALSE ],
        cont)

\* processVideo up to its await of fetch; `from` names the caller.  The
\* request is noted with the input mode it was sent under (the code keeps no
\* such tag).
processVideo(s, blob, file, fileName, from) ==
    [ s EXCEPT !.isProcessing = TRUE,
               !.transcription = EmptyText,
               !.whisperText = EmptyText,
               !.inflight = @ \cup
                   { [ id |-> FreeId(UsedRequests(s)), blob |-> blob, file |-> file,
                       fileName |-> fileName, from |-> from,
                       field |-> FormField, mode |-> s.inputMode ] } ]

\* TryOutcome with the two result fields read from each other's property
TryOutcome_FieldsSwapped(resp) ==
    LET failed(m) == [ ok |-> FALSE, message |-> m,
                       prediction |-> EmptyText, whisper |-> EmptyText ]
        b == resp.body
    IN  IF resp.type = "network" THEN failed(FetchFailedMessage)
        ELSE IF b.kind = "invalid" THEN failed(JsonSyntaxMessage)
        ELSE IF b.kind = "null" THEN failed(NullPropertyMessage)
        ELSE IF ~ResponseOk(resp.status)
             THEN failed(Or(b.detail, ServerErrorText(resp.status)))
        ELSE [ ok |-> TRUE, message |-> EmptyText,
               prediction |-> Or(b.whisper_transcription, NoAVPrediction),
               whisper |-> Or(b.model_prediction, NoWhisper) ]

\* What the try block of processVideo ends with for a settled fetch:
\* [ok |-> TRUE, ...] when both results are set, else the message of the
\* error thrown (by fetch, by response.json(), by the property read on null,
\* or by the throw for a response that is not ok).
TryOutcome(resp) ==
    LET failed(m) == [ ok |-> FALSE, message |-> m,
                       prediction |-> EmptyText, whisper |-> EmptyText ]
        b == resp.body
    IN  IF resp.type = "network" THEN failed(FetchFailedMessage)
        ELSE IF b.kind = "invalid" THEN failed(JsonSyntaxMessage)
        ELSE IF b.kind = "null" THEN failed(NullPropertyMessage)
        ELSE IF ~ResponseOk(resp.status)
             THEN failed(Or(b.detail, ServerErrorText(resp.status)))
        ELSE [ ok |-> TRUE, message |-> EmptyText,
               prediction |-> Or(b.model_prediction, NoAVPrediction),
               whisper |-> Or(b.whisper_transcription, NoWhisper) ]

\* how often processVideo consumes the body of what fetch settled with:
\* response.json() is its only read, and there is none when fetch rejected
bodyReads(resp) == IF resp.type = "network" THEN 0 ELSE 1

\* processVideo with a catch block that sends the request again
processVideoSettled_Retry(s, req, resp) ==
    LET o == TryOutcome(resp)
        s0 == [ s EXCEPT !.inflight = @ \ { req } ]
        s1 == [ s0 EXCEPT !.transcription = o.prediction,
                          !.whisperText = o.whisper,
                          !.isProcessing = FALSE ]
    IN  IF ~o.ok
        THEN processVideo(s0, req.blob, req.file, req.fileName, req.from)
        ELSE IF req.from = "stopRecording"
        THEN [ s1 EXCEPT !.recorderRef = NoRecorder,
                         !.recorderStream = NoStream,
                         !.recorderStopped = FALSE ]
        ELSE s1

\* processVideo with setIsProcessing(false) at the end of the try block
\* instead of in a finally block
processVideoSettled_NoFinally(s, req, resp) ==
    LET o == TryOutcome(resp)
        s1 == [ s EXCEPT !.inflight = @ \ { req },
                         !.transcription =
                             IF o.ok THEN o.prediction ELSE ProcessingFailed,
                         !.whisperText =
                             IF o.ok THEN o.whisper ELSE ErrorPrefix \o o.message,
                         !.isProcessing = IF o.ok THEN FALSE ELSE @ ]
    IN  IF req.from = "stopRecording"
        THEN [ s1 EXCEPT !.recorderRef = NoRecorder,
                         !.recorderStream = NoStream,
                         !.recorderStopped = FALSE ]
        ELSE s1

\* processVideo after fetch settled (try / catch / finally), then what the
\* caller does once processVideo has returned
processVideoSettled(s, req, resp) ==
    LET o == TryOutcome(resp)
        s1 == [ s EXCEPT !.inflight = @ \ { req },
                         !.transcription =
                             IF o.ok THEN o.prediction ELSE ProcessingFailed,
                         !.whisperText =
                             IF o.ok THEN o.whisper ELSE ErrorPrefix \o o.message,
                         !.isProcessing = FALSE ]
    IN  IF req.from = "stopRecording"
        THEN [ s1 EXCEPT !.recorderRef = NoRecorder,
                         !.recorderStream = NoStream,
                         !.recorderStopped = FALSE ]
        ELSE s1

\* stopRecording: hands the callback to the recorder.  A recorder that is
\* already stopped either replaces the callback it holds (extra = 0) or runs
\* the new one as well (extra = 1), depending on the recorder RecordRTC picked.
stopRecording(s, extra) ==
    IF s.recorderRef = NoRecorder THEN s
    ELSE IF ~s.recorderStopped
         THEN [ s EXCEPT !.recorderStopped = TRUE,
                         !.pendingStops = @ + 1 ]
         ELSE [ s EXCEPT !.pendingStops = @ + extra,
                         !.extraCallbacks = @ + extra ]

\* the callback given to recorder.stopRecording
stopRecordingCallback(s) ==
    LET s0 == [ s EXCEPT !.pendingStops = @ - 1 ] IN
    IF s.recorderRef = NoRecorder
    THEN [ s0 EXCEPT !.uncaught = TRUE ]
    ELSE processVideo(
             [ s0 EXCEPT !.status = "stopped", !.lastRecording = s.recorderRef ],
             s.recorderRef, NoFile, RecordedFileName, "stopRecording")

handleFileChange(s, file) ==
    IF file = NoFile THEN [ s EXCEPT !.fileDialogOpen = FALSE ]
    ELSE stopMediaStream(
             [ s EXCEPT !.fileDialogOpen = FALSE,
                        !.uploadedFile = file,
                        !.transcription = EmptyText,
                        !.whisperText = EmptyText,
                        !.lastRecording = NoBlob ])

handleUploadClick(s) ==
    IF s.uploadedFile # NoFile
    THEN processVideo(s, NoBlob, s.uploadedFile, s.uploadedFile, "handleUploadClick")
    ELSE [ s EXCEPT !.fileDialogOpen = TRUE ]

\* handleModeChange without its check of the status
handleModeChange_NoRecordingCheck(s, mode) ==
    LET s1 == stopMediaStream([ s EXCEPT !.inputMode = mode ])
        s2 == [ s1 EXCEPT !.uploadedFile = NoFile,
                          !.status = "idle",
                          !.transcription = EmptyText,
                          !.whisperText = EmptyText,
                          !.lastRecording = NoBlob ]
    IN IF mode = "webcam" THEN requestPermissions(s2, "none") ELSE s2

\* handleModeChange without setLastRecording(null)
handleModeChange_KeepsRecording(s, mode) ==
    IF s.status = "recording" THEN s
    ELSE LET s1 == stopMediaStream([ s EXCEPT !.inputMode = mode ])
             s2 == [ s1 EXCEPT !.uploadedFile = NoFile,
                               !.status = "idle",
                               !.transcription = EmptyText,
                               !.whisperText = EmptyText ]
         IN IF mode = "webcam" THEN requestPermissions(s2, "none") ELSE s2

\* handleModeChange without setUploadedFile(null)
handleModeChange_KeepsUploadedFile(s, mode) ==
    IF s.status = "recording" THEN s
    ELSE LET s1 == stopMediaStream([ s EXCEPT !.inputMode = mode ])
             s2 == [ s1 EXCEPT !.status = "idle",
                               !.transcription = EmptyText,
                               !.whisperText = EmptyText,
                               !.lastRecording = NoBlob ]
         IN IF mode = "webcam" THEN requestPermissions(s2, "none") ELSE s2

handleModeChange(s, mode) ==
    IF s.status = "recording" THEN s
    ELSE LET s1 == stopMediaStream([ s EXCEPT !.inputMode = mode ])
             s2 == [ s1 EXCEPT !.uploadedFile = NoFile,
                               !.status = "idle",
                               !.transcription = EmptyText,
                               !.whisperText = EmptyText,
                               !.lastRecording = NoBlob ]
         IN IF mode = "webcam" THEN requestPermissions(s2, "none") ELSE s2

\* the mount effect, and its cleanup
mountEffect(s) ==
    LET s1 == [ s EXCEPT !.mountState = "mounted" ] IN
    IF s.inputMode = "webcam" THEN requestPermissions(s1, "none") ELSE s1

\* the cleanup runs, and the component's useState values are gone with it
unmountCleanup(s) ==
    LET s1 == stopMediaStream([ s EXCEPT !.mountState = "unmounted" ]) IN
    [ s1 EXCEPT !.status = "idle",
                !.inputMode = "webcam",
                !.permissionError = EmptyText,
                !.transcription = EmptyText,
                !.whisperText = EmptyText,
                !.isProcessing = FALSE,
                !.uploadedFile = NoFile,
                !.lastRecording = NoBlob ]

----------------------------------------------------------------------------
(* VideoToText: what the rendered screen lets happen *)

\* the user can act on the page: it is mounted and no file dialog covers it
Interactive == mountState = "mounted" /\ ~fileDialogOpen

\* What the rendered screen offers the user now: the results of the handlers
\* behind the buttons that are rendered and not disabled
Offered ==
    IF ~Interactive THEN { }
    ELSE ( IF ~isProcessing
           THEN { handleModeChange(St, mode) : mode \in Modes } ELSE { } )
         \cup ( IF inputMode = "webcam" /\ ~isProcessing /\ hasPermissions
                THEN IF status = "recording"
                     THEN { stopRecording(St, extra) : extra \in { 0, 1 } }
                     ELSE { startRecording(St) }
                ELSE { } )
         \cup ( IF inputMode = "upload" /\ ~isProcessing
                THEN { handleUploadClick(St) } ELSE { } )
         \cup ( IF ~(isProcessing \/ status = "recording")
                THEN { unmountCleanup(St) } ELSE { } )

\* whether the handler about to run may call getUserMedia / fetch once more
PendingAcquisitions(s) == s.pendingAcq["none"] + s.pendingAcq["startRecording"]
CanAcquire == Cardinality(liveStreams) + PendingAcquisitions(St) < MaxStreams

InitCapture ==
    /\ status = "idle"
    /\ inputMode = "webcam"
    /\ hasPermissions = FALSE
    /\ permissionError = EmptyText
    /\ transcription = EmptyText
    /\ whisperText = EmptyText
    /\ isProcessing = FALSE
    /\ uploadedFile = NoFile
    /\ lastRecording = NoBlob
    /\ mediaStreamRef = NoStream
    /\ recorderRef = NoRecorder
    /\ mountState = "initial"
    /\ fileDialogOpen = FALSE
    /\ liveStreams = {}
    /\ pendingAcq = [ c \in Continuations |-> 0 ]
    /\ recorderStream = NoStream
    /\ recorderStopped = FALSE
    /\ pendingStops = 0
    /\ extraCallbacks = 0
    /\ inflight = {}
    /\ uncaught = FALSE
    /\ lastEvent = Event("init", "")
    /\ clicks = 0

InitAudio ==
    /\ selectedFile = NoAudioFile
    /\ isTranscribing = FALSE
    /\ pendingTranscribe = {}
    /\ lastAudioEvent = AudioEvent("init", NoAudioFile)

InitApi ==
    /\ apiPending = {}
    /\ apiReturned = [ fn |-> "none", arg |-> << >>, failed |-> FALSE,
                       resolved |-> FALSE, text |-> EmptyText ]

\* the Media Recorder screen (src/src/App.tsx) after its first render
RecModes == { "continuous", "timed" }
RecContinuations == { "none", "startRecording" }
timedDuration == 5
\* null in recorderRef
NoRec == [ id |-> 0, mode |-> "none", stopped |-> FALSE ]
RecEvent(op, arg) == [ op |-> op, arg |-> arg ]

InitRec ==
    /\ rec = [ mode |-> "continuous", status |-> "idle",
               hasPermissions |-> FALSE, permissionError |-> EmptyText,
               countdown |-> 0, mediaStreamRef |-> NoStream,
               recorderRef |-> NoRec, countdownIntervalRef |-> 0,
               liveStreams |-> { }, timers |-> { },
               pendingAcq |-> [ c \in RecContinuations \X RecModes |-> 0 ],
               pendingStops |-> [ m \in RecModes |-> 0 ],
               downloads |-> << >>, recordings |-> 0, extraCallbacks |-> 0,
               mountState |-> "mounted", uncaught |-> FALSE ]
    /\ lastRecEvent = RecEvent("init", "")

Init == InitCapture /\ InitAudio /\ InitApi /\ InitRec

Mount ==
    /\ mountState = "initial"
    /\ CanAcquire
    /\ Do(mountEffect(St), Event("mount", ""))

\* the Back button: the parent unmounts the screen
ClickBack ==
    /\ Interactive
    /\ ~(isProcessing \/ status = "recording")
    /\ Do(unmountCleanup(St), Event("unmount", ""))

ClickModeToggle ==
    \E mode \in Modes :
        /\ Interactive
        /\ ~isProcessing
        /\ mode = "webcam" /\ status # "recording" => CanAcquire
        /\ Do(handleModeChange(St, mode), Event("handleModeChange", mode))

ClickStartRecording ==
    /\ Interactive
    /\ inputMode = "webcam"
    /\ ~(isProcessing \/ ~hasPermissions)
    /\ status # "recording"
    /\ mediaStreamRef = NoStream => CanAcquire
    /\ Do(startRecording(St), Event("startRecording", ""))

ClickStopRecording ==
    \E extra \in { 0, 1 } :
        /\ Interactive
        /\ inputMode = "webcam"
        /\ ~(isProcessing \/ ~hasPermissions)
        /\ status = "recording"
        /\ extra = 1 => recorderStopped /\ extraCallbacks < MaxExtraCallbacks
        /\ Do(stopRecording(St, extra), Event("stopRecording", ""))

ClickUpload ==
    /\ Interactive
    /\ inputMode = "upload"
    /\ ~isProcessing
    /\ Do(handleUploadClick(St), Event("handleUploadClick", ""))

\* the file dialog closes: with a file chosen, or cancelled (NoFile)
FileInputChange ==
    \E file \in VideoFiles \cup { NoFile } :
        /\ mountState = "mounted"
        /\ fileDialogOpen
        /\ Do(handleFileChange(St, file), Event("handleFileChange", file))

GetUserMediaGranted ==
    \E cont \in Continuations :
        /\ pendingAcq[cont] > 0
        /\ Do(requestPermissionsGranted(St, cont), Event("getUserMediaGranted", cont))

GetUserMediaDenied ==
    \E cont \in Continuations :
        /\ pendingAcq[cont] > 0
        /\ Do(requestPermissionsDenied(St, cont), Event("getUserMediaDenied", cont))

RecorderStopped ==
    /\ pendingStops > 0
    /\ Do(stopRecordingCallback(St), Event("stopRecordingCallback", ""))

FetchSettled ==
    \E req \in inflight, resp \in SettledResponses :
        Do(processVideoSettled(St, req, resp), Event("fetchSettled", req.mode))

Next ==
    \/ Mount
    \/ ClickBack
    \/ ClickModeToggle
    \/ ClickStartRecording
    \/ ClickStopRecording
    \/ ClickUpload
    \/ FileInputChange
    \/ GetUserMediaGranted
    \/ GetUserMediaDenied
    \/ RecorderStopped
    \/ FetchSettled

Spec == Init /\ [][Next]_vars

\* VideoToText with a recorder that runs the callback of every stop call, in
\* runs where the camera is granted and every request ends with a network error:
\* a part of the runs of the screen, in which more left-over callbacks fit than
\* in Spec
Stray_ClickStopRecording ==
    \E extra \in { 0, 1 } :
        /\ Interactive
        /\ inputMode = "webcam"
        /\ ~(isProcessing \/ ~hasPermissions)
        /\ status = "recording"
        /\ extra = 1 => recorderStopped /\ extraCallbacks < MaxStrayCallbacks
        /\ Do(stopRecording(St, extra), Event("stopRecording", ""))

Stray_FetchSettled ==
    \E req \in inflight :
        Do(processVideoSettled(St, req, NetworkFailure), Event("fetchSettled", req.mode))

NextStray ==
    \/ Mount
    \/ ClickBack
    \/ ClickModeToggle
    \/ ClickStartRecording
    \/ Stray_ClickStopRecording
    \/ ClickUpload
    \/ FileInputChange
    \/ GetUserMediaGranted
    \/ RecorderStopped
    \/ Stray_FetchSettled

SpecStray == Init /\ [][NextStray]_vars

\* the device request settles: a pending getUserMedia call is eventually
\* granted or denied
AcquireSpec == Spec /\ WF_vars(GetUserMediaGranted \/ GetUserMediaDenied)

\* the network call settles: a request in flight is eventually answered
LiveSpec == Spec /\ WF_vars(FetchSettled)

----------------------------------------------------------------------------
(* App (part_000): the earlier screen with the same two modes.  Its          *)
(* stopMediaStream, startRecording, stopRecording with its callback,        *)
(* handleUploadClick and the first half of processVideo read as in          *)
(* VideoToText; what differs is modelled here.                              *)

AppPermissionErrorText ==
    << "Failed to access camera/microphone. Please grant permissions." >>

\* no stopMediaStream() before the request
App_requestPermissions(s, cont) ==
    [ s EXCEPT !.permissionError = EmptyText,
               !.pendingAcq[cont] = @ + 1 ]

App_startRecording(s) ==
    IF s.mediaStreamRef = NoStream
    THEN App_requestPermissions(s, "startRecording")
    ELSE createRecorder(s)

App_requestPermissionsDenied(s, cont) ==
    startRecordingResumed(
        [ s EXCEPT !.pendingAcq[cont] = @ - 1,
                   !.permissionError = AppPermissionErrorText,
                   !.hasPermissions = FALSE ],
        cont)

\* the results are stored as received; the catch block only alerts
App_processVideoSettled(s, req, resp) ==
    LET o == TryOutcome(resp)
        b == resp.body
        s1 == [ s EXCEPT !.inflight = @ \ { req },
                         !.transcription =
                             IF o.ok THEN b.model_prediction ELSE @,
                         !.whisperText =
                             IF o.ok THEN b.whisper_transcription ELSE @,
                         !.isProcessing = FALSE ]
    IN  IF req.from = "stopRecording"
        THEN [ s1 EXCEPT !.recorderRef = NoRecorder,
                         !.recorderStream = NoStream,
                         !.recorderStopped = FALSE ]
        ELSE s1

\* the webcam stream is left running
App_handleFileChange(s, file) ==
    IF file = NoFile THEN [ s EXCEPT !.fileDialogOpen = FALSE ]
    ELSE [ s EXCEPT !.fileDialogOpen = FALSE,
                    !.uploadedFile = file,
                    !.transcription = EmptyText,
                    !.whisperText = EmptyText,
                    !.lastRecording = NoBlob ]

\* no check of the status, no acquisition on entering webcam mode
App_handleModeChange(s, mode) ==
    LET s1 == stopMediaStream([ s EXCEPT !.inputMode = mode ]) IN
    [ s1 EXCEPT !.uploadedFile = NoFile,
                !.status = "idle",
                !.transcription = EmptyText,
                !.whisperText = EmptyText,
                !.lastRecording = NoBlob ]

\* App is the root component: it is mounted from the start, its effect
\* requests nothing, and there is no Back button.
InitApp ==
    /\ status = "idle"
    /\ inputMode = "webcam"
    /\ hasPermissions = FALSE
    /\ permissionError = EmptyText
    /\ transcription = EmptyText
    /\ whisperText = EmptyText
    /\ isProcessing = FALSE
    /\ uploadedFile = NoFile
    /\ lastRecording = NoBlob
    /\ mediaStreamRef = NoStream
    /\ recorderRef = NoRecorder
    /\ mountState = "mounted"
    /\ fileDialogOpen = FALSE
    /\ liveStreams = {}
    /\ pendingAcq = [ c \in Continuations |-> 0 ]
    /\ recorderStream = NoStream
    /\ recorderStopped = FALSE
    /\ pendingStops = 0
    /\ extraCallbacks = 0
    /\ inflight = {}
    /\ uncaught = FALSE
    /\ lastEvent = Event("init", "")
    /\ clicks = 0
    /\ InitAudio
    /\ InitApi
    /\ InitRec

\* a step of App made by the user
Click(n, ev) ==
    /\ Interactive
    /\ clicks < MaxClicks
    /\ Assign(n)
    /\ lastEvent' = ev
    /\ clicks' = clicks + 1
    /\ UNCHANGED << audioVars, apiVars, recVars >>

App_ClickModeToggle ==
    \E mode \in Modes :
        /\ Click(App_handleModeChange(St, mode), Event("handleModeChange", mode))

App_ClickStartRecording ==
    /\ inputMode = "webcam"
    /\ ~isProcessing
    /\ status # "recording"
    /\ mediaStreamRef = NoStream => CanAcquire
    /\ Click(App_startRecording(St), Event("startRecording", ""))

App_ClickStopRecording ==
    \E extra \in { 0, 1 } :
        /\ inputMode = "webcam"
        /\ ~isProcessing
        /\ status = "recording"
        /\ extra = 1 => recorderStopped /\ extraCallbacks < MaxExtraCallbacks
        /\ Click(stopRecording(St, extra), Event("stopRecording", ""))

App_ClickUpload ==
    /\ inputMode = "upload"
    /\ ~isProcessing
    /\ Click(handleUploadClick(St), Event("handleUploadClick", ""))

App_FileInputChange ==
    \E file \in VideoFiles \cup { NoFile } :
        /\ fileDialogOpen
        /\ Do(App_handleFileChange(St, file), Event("handleFileChange", file))

App_GetUserMediaGranted ==
    \E cont \in Continuations :
        /\ pendingAcq[cont] > 0
        /\ Do(requestPermissionsGranted(St, cont), Event("getUserMediaGranted", cont))

App_GetUserMediaDenied ==
    \E cont \in Continuations :
        /\ pendingAcq[cont] > 0
        /\ Do(App_requestPermissionsDenied(St, cont),
              Event("getUserMediaDenied", cont))

App_RecorderStopped ==
    /\ pendingStops > 0
    /\ Do(stopRecordingCallback(St), Event("stopRecordingCallback", ""))

App_FetchSettled ==
    \E req \in inflight, resp \in SettledResponses :
        Do(App_processVideoSettled(St, req, resp), Event("fetchSettled", req.mode))

NextApp ==
    \/ App_ClickModeToggle
    \/ App_ClickStartRecording
    \/ App_ClickStopRecording
    \/ App_ClickUpload
    \/ App_FileInputChange
    \/ App_GetUserMediaGranted
    \/ App_GetUserMediaDenied
    \/ App_RecorderStopped
    \/ App_FetchSettled

SpecApp == InitApp /\ [][NextApp]_vars

----------------------------------------------------------------------------
(* AudioToText (part_003) *)

AudioSt ==
    [ selectedFile |-> selectedFile, transcription |-> transcription,
      isTranscribing |-> isTranscribing, pendingTranscribe |-> pendingTranscribe ]

\* handleFileSelect without its size validation
handleFileSelect_NoSizeCheck(s, file) ==
    LET fileNameLower == toLowerCase(file.name) IN
    IF ~(\E k \in 1 .. Len(acceptedFormats) :
             endsWith(fileNameLower, acceptedFormats[k]))
    THEN s
    ELSE [ s EXCEPT !.selectedFile = file, !.transcription = EmptyText ]

\* handleFileSelect rejecting a file of exactly the maximum size
handleFileSelect_StrictSize(s, file) ==
    LET fileNameLower == toLowerCase(file.name) IN
    IF ~(\E k \in 1 .. Len(acceptedFormats) :
             endsWith(fileNameLower, acceptedFormats[k]))
    THEN s
    ELSE IF file.size >= maxFileSize
    THEN s
    ELSE [ s EXCEPT !.selectedFile = file, !.transcription = EmptyText ]

handleFileSelect(s, file) ==
    LET fileNameLower == toLowerCase(file.name) IN
    IF ~(\E k \in 1 .. Len(acceptedFormats) :
             endsWith(fileNameLower, acceptedFormats[k]))
    THEN s
    ELSE IF file.size > maxFileSize
    THEN s
    ELSE [ s EXCEPT !.selectedFile = file, !.transcription = EmptyText ]

\* handleUploadAndTranscribe up to its await of transcribeAudio
handleUploadAndTranscribe(s) ==
    IF s.selectedFile = NoAudioFile THEN s
    ELSE [ s EXCEPT !.isTranscribing = TRUE,
                    !.pendingTranscribe = @ \cup { s.selectedFile } ]

\* the placeholder transcribeAudio of the screen: whether it rejects
transcribeAudioRejects(file) ==
    includes(toLowerCase(file.name), << "e", "r", "r", "o", "r" >>)

\* handleUploadAndTranscribe without its finally block after a rejection
handleUploadAndTranscribeSettled_NoFinally(s, file) ==
    [ s EXCEPT !.pendingTranscribe = @ \ { file },
               !.transcription =
                   IF transcribeAudioRejects(file)
                   THEN TranscriptionFailedText
                   ELSE TranscriptionResultText(file),
               !.isTranscribing = transcribeAudioRejects(file) ]

\* handleUploadAndTranscribe after transcribeAudio settled
handleUploadAndTranscribeSettled(s, file) ==
    [ s EXCEPT !.pendingTranscribe = @ \ { file },
               !.transcription =
                   IF transcribeAudioRejects(file)
                   THEN TranscriptionFailedText
                   ELSE TranscriptionResultText(file),
               !.isTranscribing = FALSE ]

handleClear(s) ==
    [ s EXCEPT !.selectedFile = NoAudioFile, !.transcription = EmptyText ]

DoAudio(n, ev) ==
    /\ selectedFile' = n.selectedFile
    /\ transcription' = n.transcription
    /\ isTranscribing' = n.isTranscribing
    /\ pendingTranscribe' = n.pendingTranscribe
    /\ lastAudioEvent' = ev
    /\ UNCHANGED << status, inputMode, hasPermissions, permissionError,
                    whisperText, isProcessing, uploadedFile, lastRecording,
                    mediaStreamRef, recorderRef, mountState, fileDialogOpen,
                    liveStreams, pendingAcq, recorderStream, recorderStopped,
                    pendingStops, extraCallbacks, inflight, uncaught,
                    lastEvent, clicks, apiVars, recVars >>

\* a file dropped on the drop zone or chosen in the file dialog; the zone and
\* the input are rendered only while no file is selected
Audio_FileOffered ==
    \E file \in AudioFiles :
        /\ selectedFile = NoAudioFile
        /\ DoAudio(handleFileSelect(AudioSt, file),
                   AudioEvent("handleFileSelect", file))

Audio_ClickUploadAndTranscribe ==
    /\ selectedFile # NoAudioFile
    /\ ~isTranscribing
    /\ DoAudio(handleUploadAndTranscribe(AudioSt),
               AudioEvent("handleUploadAndTranscribe", selectedFile))

Audio_TranscribeSettled ==
    \E file \in pendingTranscribe :
        DoAudio(handleUploadAndTranscribeSettled(AudioSt, file),
                AudioEvent("transcribeSettled", file))

Audio_ClickClear ==
    /\ selectedFile # NoAudioFile
    /\ ~isTranscribing
    /\ DoAudio(handleClear(AudioSt), AudioEvent("handleClear", selectedFile))

NextAudio ==
    \/ Audio_FileOffered
    \/ Audio_ClickUploadAndTranscribe
    \/ Audio_TranscribeSettled
    \/ Audio_ClickClear

SpecAudio == Init /\ [][NextAudio]_vars

\* the promise of transcribeAudio settles: the placeholder resolves or rejects
\* when its timeout of 2.5 s has run
AudioLiveSpec == SpecAudio /\ WF_vars(Audio_TranscribeSettled)

----------------------------------------------------------------------------
(* services/api.ts: transcribeAudio and transcribeLiveAudio *)

\* the names of the files and the blob the functions are called with
ApiArgs ==
    [ transcribeAudio |-> { << "a", ".", "m", "p", "3" >>,
                            << "b", ".", "w", "a", "v" >>,
                            << "c", ".", "m", "4", "a" >> },
      transcribeLiveAudio |-> { << "b", "l", "o", "b" >> } ]

ApiFunctions == DOMAIN ApiArgs

\* what the /transcribe request settles with: fetch rejects, or a response
\* whose body is not JSON, or is a JSON object with a text (or without one)
ApiTexts == { Undefined, << "hello world" >> }
ApiInvalidBody == [ kind |-> "invalid", text |-> Undefined ]
ApiBodies ==
    { ApiInvalidBody } \cup { [ kind |-> "object", text |-> x ] : x \in ApiTexts }
ApiNetworkFailure == [ type |-> "network", status |-> 0, body |-> ApiInvalidBody ]
ApiResponses ==
    { ApiNetworkFailure }
    \cup { [ type |-> "http", status |-> st, body |-> b ] :
             st \in Statuses, b \in ApiBodies }

MockFileText(name) ==
    << "Mock transcription for file: " >> \o name
        \o << ". This is a sample transcription that would come from your backend ML model. The actual implementation will connect to your Speech-to-Text API endpoint." >>
MockLiveText ==
    << "Mock transcription from live recording. This is what your Speech-to-Text model would return after processing the recorded audio. The transcription accuracy will depend on your backend ML model implementation." >>

\* the transcription call failed: fetch rejected, the status is not 2xx, or
\* the body of a 2xx response is not JSON
ApiCallFailed(resp) ==
    \/ resp.type = "network"
    \/ ~ResponseOk(resp.status)
    \/ resp.body.kind = "invalid"

\* What the promise of transcribeAudio / transcribeLiveAudio settles with:
\* the parsed body when the try block got through, else (catch) the mock
\* response.  Neither function ever rejects.
ApiResult(fn, arg, resp) ==
    IF ApiCallFailed(resp)
    THEN [ fn |-> fn, arg |-> arg, failed |-> TRUE, resolved |-> TRUE,
           text |-> IF fn = "transcribeAudio" THEN MockFileText(arg)
                    ELSE MockLiveText ]
    ELSE [ fn |-> fn, arg |-> arg, failed |-> FALSE, resolved |-> TRUE,
           text |-> resp.body.text ]

DoApi ==
    UNCHANGED << captureVars, lastEvent, clicks, audioVars, recVars >>

\* a caller calls one of the two functions: the request is sent
Api_Call ==
    \E fn \in ApiFunctions :
        \E arg \in ApiArgs[fn] :
            /\ apiPending' = apiPending \cup { [ fn |-> fn, arg |-> arg ] }
            /\ UNCHANGED apiReturned
            /\ DoApi

\* the request of a call settles and the call returns
Api_Settled ==
    \E call \in apiPending, resp \in ApiResponses :
        /\ apiPending' = apiPending \ { call }
        /\ apiReturned' = ApiResult(call.fn, call.arg, resp)
        /\ DoApi

NextApi ==
    \/ Api_Call
    \/ Api_Settled

SpecApi == Init /\ [][NextApi]_vars

----------------------------------------------------------------------------
(* Media Recorder (src/src/App.tsx): continuous video or timed audio        *)
(* recording, downloaded when the recorder has stopped.  A handler reads    *)
(* `mode` from the render it was created in: the parameter m is that value. *)

\* a state update made after the unmount is dropped
RecCommitted(r, n) ==
    IF r.mountState # "unmounted" THEN n
    ELSE [ n EXCEPT !.mode = r.mode, !.status = r.status,
                    !.hasPermissions = r.hasPermissions,
                    !.permissionError = r.permissionError,
                    !.countdown = r.countdown ]

Rec_stopMediaStream(r) ==
    [ r EXCEPT !.liveStreams = @ \ { r.mediaStreamRef },
               !.mediaStreamRef = NoStream,
               !.hasPermissions = FALSE ]

\* requestPermissions up to its await of getUserMedia
Rec_requestPermissions(r, cont, m) ==
    [ r EXCEPT !.permissionError = EmptyText,
               !.pendingAcq[<< cont, m >>] = @ + 1 ]

\* startRecording from its options on: the recorder is created with the type
\* of mode m and started; in timed mode the countdown timer is set up
Rec_createRecorder(r, m) ==
    LET id == r.recordings + 1
        r1 == [ r EXCEPT !.recorderRef = [ id |-> id, mode |-> m, stopped |-> FALSE ],
                         !.recordings = id,
                         !.status = "recording" ]
        timer == FreeId({ x.id : x \in r.timers } \cup { r.countdownIntervalRef })
    IN  IF m = "timed"
        THEN [ r1 EXCEPT !.countdown = timedDuration,
                         !.timers = @ \cup { [ id |-> timer, timeLeft |-> timedDuration,
                                               mode |-> m ] },
                         !.countdownIntervalRef = timer ]
        ELSE r1

Rec_startRecording(r, m) ==
    IF r.mediaStreamRef = NoStream
    THEN Rec_requestPermissions(r, "startRecording", m)
    ELSE Rec_createRecorder(r, m)

\* startRecording after its await of requestPermissions
Rec_startRecordingResumed(r, cont, m) ==
    IF cont = "startRecording" /\ r.mediaStreamRef # NoStream
    THEN Rec_createRecorder(r, m)
    ELSE r

Rec_requestPermissionsGranted(r, cont, m) ==
    LET stream == FreeId(r.liveStreams \cup { r.mediaStreamRef }) IN
    Rec_startRecordingResumed(
        [ r EXCEPT !.pendingAcq[<< cont, m >>] = @ - 1,
                   !.liveStreams = @ \cup { stream },
                   !.mediaStreamRef = stream,
                   !.hasPermissions = TRUE ],
        cont, m)

Rec_requestPermissionsDenied(r, cont, m) ==
    Rec_startRecordingResumed(
        [ r EXCEPT !.pendingAcq[<< cont, m >>] = @ - 1,
                   !.permissionError = AppPermissionErrorText,
                   !.hasPermissions = FALSE ],
        cont, m)

\* clearInterval(countdownIntervalRef.current), if the ref is set
Rec_clearCountdown(r) ==
    IF r.countdownIntervalRef = 0 THEN r
    ELSE [ r EXCEPT !.timers = { x \in @ : x.id # r.countdownIntervalRef },
                    !.countdownIntervalRef = 0 ]

\* stopRecording: the callback it hands to the recorder reads mode m.  A
\* recorder that is already stopped either replaces the callback it holds
\* (extra = 0) or runs the new one as well (extra = 1).
Rec_stopRecording(r, m, extra) ==
    IF r.recorderRef = NoRec THEN r
    ELSE LET r1 == Rec_clearCountdown(r)
             waiting == \E x \in RecModes : r.pendingStops[x] > 0
         IN  IF ~r.recorderRef.stopped
             THEN [ r1 EXCEPT !.recorderRef.stopped = TRUE,
                              !.pendingStops[m] = @ + 1 ]
             ELSE IF extra = 1
             THEN [ r1 EXCEPT !.pendingStops[m] = @ + 1,
                              !.extraCallbacks = @ + 1 ]
             ELSE IF waiting
             THEN [ r1 EXCEPT !.pendingStops =
                                  [ x \in RecModes |-> IF x = m THEN 1 ELSE 0 ] ]
             ELSE r1

\* the callback given to recorder.stopRecording, then downloadRecording
Rec_stopRecordingCallback(r, m) ==
    LET r0 == [ r EXCEPT !.pendingStops[m] = @ - 1 ] IN
    IF r.recorderRef = NoRec
    THEN [ r0 EXCEPT !.uncaught = TRUE ]
    ELSE [ r0 EXCEPT !.downloads =
                         Append(@, [ rec |-> r.recorderRef.id,
                                     content |-> r.recorderRef.mode,
                                     name |-> m,
                                     stopped |-> r.recorderRef.stopped ]),
                     !.status = "stopped",
                     !.countdown = 0,
                     !.recorderRef = NoRec ]

\* one run of the setInterval callback of timer x
Rec_tick(r, x, extra) ==
    LET y == [ x EXCEPT !.timeLeft = @ - 1 ]
        r1 == [ r EXCEPT !.timers = (@ \ { x }) \cup { y },
                         !.countdown = y.timeLeft ]
    IN  IF y.timeLeft <= 0 THEN Rec_stopRecording(r1, x.mode, extra) ELSE r1

Rec_handleModeChange(r, newMode) ==
    IF r.status = "recording" THEN r
    ELSE [ Rec_stopMediaStream(r) EXCEPT !.mode = newMode, !.status = "idle" ]

\* the cleanup of the mount effect
Rec_unmountCleanup(r) ==
    Rec_clearCountdown(Rec_stopMediaStream([ r EXCEPT !.mountState = "unmounted" ]))

\* one step of the Media Recorder screen
DoRec(n, ev) ==
    /\ rec' = RecCommitted(rec, n)
    /\ lastRecEvent' = ev
    /\ UNCHANGED << captureVars, lastEvent, clicks, audioVars, apiVars >>

\* the state a handler starts from
RecSt == [ rec EXCEPT !.uncaught = FALSE ]

RecPendingAcquisitions(r) ==
    LET n(c) == r.pendingAcq[<< c, "continuous" >>] + r.pendingAcq[<< c, "timed" >>]
    IN  n("none") + n("startRecording")
RecCanAcquire ==
    Cardinality(rec.liveStreams) + RecPendingAcquisitions(rec) < MaxStreams
RecMounted == rec.mountState = "mounted"

\* the 'Enable Camera & Mic' / 'Enable Microphone' button
Rec_ClickEnable ==
    /\ RecMounted
    /\ ~rec.hasPermissions /\ rec.status = "idle"
    /\ RecCanAcquire
    /\ DoRec(Rec_requestPermissions(RecSt, "none", rec.mode),
             RecEvent("requestPermissions", rec.mode))

Rec_ClickStartRecording ==
    /\ RecMounted
    /\ rec.hasPermissions /\ rec.status # "recording"
    /\ rec.recordings < MaxRecordings
    /\ rec.mediaStreamRef = NoStream => RecCanAcquire
    /\ DoRec(Rec_startRecording(RecSt, rec.mode), RecEvent("startRecording", rec.mode))

Rec_ClickStopRecording ==
    \E extra \in { 0, 1 } :
        /\ RecMounted
        /\ rec.hasPermissions /\ rec.status = "recording" /\ rec.mode = "continuous"
        /\ extra = 1 => rec.recorderRef.stopped /\ rec.extraCallbacks < MaxExtraCallbacks
        /\ DoRec(Rec_stopRecording(RecSt, rec.mode, extra),
                 RecEvent("stopRecording", rec.mode))

\* the mode buttons are disabled while the status is 'recording'
Rec_ClickMode ==
    \E newMode \in RecModes :
        /\ RecMounted
        /\ rec.status # "recording"
        /\ DoRec(Rec_handleModeChange(RecSt, newMode),
                 RecEvent("handleModeChange", newMode))

Rec_GetUserMediaGranted ==
    \E c \in RecContinuations, m \in RecModes :
        /\ rec.pendingAcq[<< c, m >>] > 0
        /\ c = "startRecording" => rec.recordings < MaxRecordings
        /\ DoRec(Rec_requestPermissionsGranted(RecSt, c, m),
                 RecEvent("getUserMediaGranted", m))

Rec_GetUserMediaDenied ==
    \E c \in RecContinuations, m \in RecModes :
        /\ rec.pendingAcq[<< c, m >>] > 0
        /\ c = "startRecording" => rec.recordings < MaxRecordings
        /\ DoRec(Rec_requestPermissionsDenied(RecSt, c, m),
                 RecEvent("getUserMediaDenied", m))

Rec_RecorderStopped ==
    \E m \in RecModes :
        /\ rec.pendingStops[m] > 0
        /\ DoRec(Rec_stopRecordingCallback(RecSt, m),
                 RecEvent("stopRecordingCallback", m))

\* a second passes for a running countdown timer
Rec_Tick ==
    \E x \in rec.timers, extra \in { 0, 1 } :
        /\ x.timeLeft > -MaxOverrun
        /\ extra = 1 => /\ x.timeLeft <= 1
                        /\ rec.recorderRef.stopped
                        /\ rec.extraCallbacks < MaxExtraCallbacks
        /\ DoRec(Rec_tick(RecSt, x, extra), RecEvent("tick", x.mode))

\* the page is closed or the root is replaced
Rec_Unmount ==
    /\ RecMounted
    /\ DoRec(Rec_unmountCleanup(RecSt), RecEvent("unmount", ""))

NextRec ==
    \/ Rec_ClickEnable
    \/ Rec_ClickStartRecording
    \/ Rec_ClickStopRecording
    \/ Rec_ClickMode
    \/ Rec_GetUserMediaGranted
    \/ Rec_GetUserMediaDenied
    \/ Rec_RecorderStopped
    \/ Rec_Tick
    \/ Rec_Unmount

SpecRec == Init /\ [][NextRec]_vars

\* the timers and the recorder run: a countdown timer that is set keeps
\* ticking, and a recorder runs the callback it was handed
TimedSpec == SpecRec /\ WF_vars(Rec_Tick) /\ WF_vars(Rec_RecorderStopped)

----------------------------------------------------------------------------
(* Properties *)

C2_StaleCompletionDiscarded ==
    [][ (lastEvent'.op = "fetchSettled" /\ lastEvent'.arg # inputMode)
          => UNCHANGED << transcription, whisperText, status, isProcessing >>
      ]_vars

\* C3: at most one transcription request is outstanding at any time.
C3_OneRequestOutstanding == Cardinality(inflight) <= 1

\* C4: every granted stream whose tracks are not stopped is the one held in
\* the stream handle.
C4_NoDanglingStream == liveStreams \subseteq { mediaStreamRef }

\* C5: in upload mode no capture stream is held or live.
C5_NoStreamInUploadMode ==
    inputMode = "upload"
        => mediaStreamRef = NoStream /\ liveStreams = {} /\ ~hasPermissions

HasAcceptedExtension(file) ==
    \E k \in 1 .. Len(acceptedFormats) :
        endsWith(toLowerCase(file.name), acceptedFormats[k])

C8_UploadedFileOnlyInUploadMode ==
    /\ uploadedFile # NoFile => inputMode = "upload"
    /\ lastEvent.op = "handleFileChange" => inputMode = "upload"

C8_Witness ==
    /\ lastEvent.op = "handleFileChange"
    /\ uploadedFile # NoFile
    /\ inputMode = "upload"

\* The session states the result texts encode once a request has settled
Completed(s) ==
    /\ ~s.isProcessing
    /\ s.transcription # ProcessingFailed
    /\ ~Falsy(s.transcription)
    /\ ~Falsy(s.whisperText)

Failed(s) ==
    /\ ~s.isProcessing
    /\ s.transcription = ProcessingFailed
    /\ Len(s.whisperText) > Len(ErrorPrefix)
    /\ SubSeq(s.whisperText, 1, Len(ErrorPrefix)) = ErrorPrefix

\* However the network call of a request in flight settles, the request is
\* over, the processing flag is cleared, the session is in exactly one of
\* Completed and Failed (Failed with a message stored when fetch rejected),
\* and no exception is left uncaught.
C9_SettlementEnds ==
    \A req \in inflight, resp \in Responses :
        LET n == processVideoSettled(St, req, resp) IN
        /\ req \notin n.inflight
        /\ ~n.isProcessing
        /\ ~n.uncaught
        /\ Completed(n) # Failed(n)
        /\ resp.type = "network" => Failed(n)

HasDetail(resp) == resp.body.kind = "object" /\ ~Falsy(resp.body.detail)

\* C10: for every response that is not 2xx the submission ends Failed and
\* the stored message is the body's detail field when the body has one, and
\* otherwise the message derived from the status, also when the body is
\* empty or not JSON.
C10_ErrorStatusMessage ==
    \A req \in inflight, resp \in Responses :
        (resp.type = "http" /\ ~ResponseOk(resp.status))
            => LET n == processVideoSettled(St, req, resp) IN
               /\ Failed(n)
               /\ n.whisperText =
                      ErrorPrefix \o ( IF HasDetail(resp) THEN resp.body.detail
                                       ELSE ServerErrorText(resp.status) )

\* C11: a 2xx response whose body is not a JSON object (not JSON at all,
\* null, or another JSON value) ends the submission in Failed and not in
\* Completed, and the body is consumed exactly once.
C11_UnparseableSuccessFails ==
    \A req \in inflight, resp \in Responses :
        ( /\ resp.type = "http"
          /\ ResponseOk(resp.status)
          /\ resp.body.kind # "object" )
            => LET n == processVideoSettled(St, req, resp) IN
               /\ Failed(n)
               /\ ~Completed(n)
               /\ bodyReads(resp) = 1

\* C12: a 2xx response with a JSON object ends the submission in Completed;
\* a prediction and a transcription that are present and not empty are stored
\* as received, and an absent or empty field is no failure.
C12_SuccessStoredVerbatim ==
    \A req \in inflight, resp \in Responses :
        ( /\ resp.type = "http"
          /\ ResponseOk(resp.status)
          /\ resp.body.kind = "object" )
            => LET n == processVideoSettled(St, req, resp)
                   p == resp.body.model_prediction
                   a == resp.body.whisper_transcription
               IN  /\ Completed(n)
                   /\ ~Failed(n)
                   /\ ~Falsy(p) => n.transcription = p
                   /\ ~Falsy(a) => n.whisperText = a

C12_Witness ==
    /\ lastEvent = Event("fetchSettled", "webcam")
    /\ status = "stopped"
    /\ lastRecording # NoBlob
    /\ transcription = << "HELLO" >>
    /\ whisperText = << "hello there" >>
    /\ ~isProcessing

\* C13: a call whose transcription request failed (fetch rejected, a status
\* that is not 2xx, a body that is not JSON) returns no result text to its
\* caller.
C13_NoResultFromFailedCall ==
    apiReturned.failed => Falsy(apiReturned.text)

\* C14: requests are sent by user actions only, one at a time.  A step that
\* puts a request in flight is a submit click or the callback of a stop
\* click and sends exactly one; a stop callback is registered by a stop click
\* only, and runs once; the settlement of a request, failed or not, ends that
\* request, sends no other, and leaves the session in exactly one of
\* Completed and Failed.
C14_NoAutomaticRetry ==
    [][ /\ ~(inflight' \subseteq inflight)
            => /\ lastEvent'.op \in { "handleUploadClick", "stopRecordingCallback" }
               /\ Cardinality(inflight' \ inflight) = 1
               /\ inflight \subseteq inflight'
        /\ pendingStops' > pendingStops
            => lastEvent'.op = "stopRecording" /\ pendingStops' = pendingStops + 1
        /\ lastEvent'.op = "stopRecordingCallback"
            => pendingStops' = pendingStops - 1
        /\ lastEvent'.op = "fetchSettled"
            => /\ inflight' \subseteq inflight
               /\ Cardinality(inflight') = Cardinality(inflight) - 1
               /\ pendingStops' = pendingStops
               /\ mountState = "mounted" => Completed(St)' # Failed(St)'
      ]_vars

C14_Witness ==
    /\ lastEvent = Event("fetchSettled", "upload")
    /\ Failed(St)
    /\ uploadedFile # NoFile
    /\ inflight = {}
    /\ pendingStops = 0

\* C15: right after a request sent under the current mode has failed, the
\* artifact that was submitted is still held (the uploaded file in upload
\* mode, the last recording in webcam mode) and the screen offers an action
\* that sends a request with that artifact again.
C15_RetryAfterFailure ==
    ( /\ lastEvent = Event("fetchSettled", inputMode)
      /\ Failed(St)
      /\ Interactive )
        => /\ inputMode = "upload"
                => /\ uploadedFile # NoFile
                   /\ \E n \in Offered :
                          \E r \in n.inflight \ inflight : r.file = uploadedFile
           /\ inputMode = "webcam"
                => /\ lastRecording # NoBlob
                   /\ \E n \in Offered :
                          \E r \in n.inflight \ inflight : r.blob = lastRecording

\* the two result texts are empty, or both come from one settled request
TextsOfOneAttempt ==
    \/ transcription = EmptyText /\ whisperText = EmptyText
    \/ \E resp \in Responses :
          LET o == TryOutcome(resp) IN
          IF o.ok
          THEN transcription = o.prediction /\ whisperText = o.whisper
          ELSE /\ transcription = ProcessingFailed
               /\ whisperText = ErrorPrefix \o o.message

\* Completed or Failed is no dead end: in upload mode the upload button is
\* offered and resubmits the held file or opens the file dialog, in webcam
\* mode a new recording or a new device acquisition is offered
NoDeadEnd ==
    ( Interactive /\ status # "recording" /\ (Completed(St) \/ Failed(St)) )
        => /\ inputMode = "upload"
                => \E n \in Offered :
                      \/ n.fileDialogOpen
                      \/ \E r \in n.inflight \ inflight : r.file = uploadedFile
           /\ inputMode = "webcam"
                => \E n \in Offered :
                      \/ n.status = "recording" /\ n.recorderRef # recorderRef
                      \/ PendingAcquisitions(n) > PendingAcquisitions(St)

C17_StartWithoutStreamFails ==
    [][ ( \/ lastEvent'.op = "startRecording" /\ mediaStreamRef = NoStream
          \/ /\ lastEvent'.op \in { "getUserMediaGranted", "getUserMediaDenied" }
             /\ lastEvent'.arg = "startRecording" )
        => recorderRef' = recorderRef /\ status' = status ]_vars

\* C18: at most one recording session exists: while a recorder is started and
\* not stopped, no step (a start click, or the rest of a start that awaited the
\* device) creates another recorder in its place.
C18_OneRecordingSession ==
    [][ ( recorderRef # NoRecorder /\ ~recorderStopped )
        => recorderRef' \in { recorderRef, NoRecorder } ]_vars

\* C19: a stop click while no recorder is held, or on a recorder that was
\* already stopped, has no side effects: nothing the screen stores changes, and
\* the recorder is left with no further callback that would produce a second
\* recording and a second submission.
C19_RepeatedStopNoEffect ==
    [][ ( /\ lastEvent'.op = "stopRecording"
          /\ recorderRef = NoRecorder \/ recorderStopped )
        => UNCHANGED << status, inputMode, hasPermissions, permissionError,
                        transcription, whisperText, isProcessing, uploadedFile,
                        lastRecording, mediaStreamRef, recorderRef, mountState,
                        fileDialogOpen, liveStreams, pendingAcq, recorderStream,
                        recorderStopped, pendingStops, inflight >> ]_vars

\* the state a call of stopMediaStream leaves (a state update made after the
\* unmount is dropped)
Released(s) == Committed(s, stopMediaStream(s))

\* C20: releasing the stream is idempotent.  Called in any state the screen can
\* be in with no stream held, stopMediaStream leaves the whole state as it is
\* (handle empty, flag false, recorder, recording and results untouched), and
\* two calls in a row leave the state one call leaves.
C20_ReleaseIdempotent ==
    /\ mediaStreamRef = NoStream => Released(St) = St
    /\ Released(Released(St)) = Released(St)

\* handleModeChange('webcam') has called stopMediaStream twice in a row, the
\* second time (in requestPermissions) with no stream held
C20_Witness ==
    /\ lastEvent = Event("handleModeChange", "webcam")
    /\ status = "idle"
    /\ mediaStreamRef = NoStream
    /\ ~hasPermissions

\* the session is in PermissionDenied: an error message is stored, the flag is
\* false and no stream is held
PermissionDenied(s) ==
    /\ s.permissionError # EmptyText
    /\ ~s.hasPermissions
    /\ s.mediaStreamRef = NoStream

\* a rendered and enabled control calls requestPermissions
RetryOffered == \E n \in Offered : PendingAcquisitions(n) > PendingAcquisitions(St)

\* C21: when getUserMedia rejects (permission denied, no device), the mounted
\* screen is in PermissionDenied afterwards with the readable message stored,
\* nothing is thrown out of the handler, and a control that requests the
\* device again is offered.
C21_DenialSurfaced ==
    [][ ( lastEvent'.op = "getUserMediaDenied" /\ mountState = "mounted" )
        => /\ PermissionDenied(St)'
           /\ permissionError' = PermissionErrorText
           /\ ~uncaught'
           /\ RetryOffered' ]_vars

\* the session is Ready: a stream is held, the flag is true and no permission
\* error is stored
Ready(s) ==
    /\ s.mediaStreamRef # NoStream
    /\ s.hasPermissions
    /\ s.permissionError = EmptyText

\* C22: entering webcam mode, at mount or by an accepted mode switch, calls
\* getUserMedia in the same step; a pending call is eventually settled, and
\* the settlement leaves the mounted screen in exactly one of Ready and
\* PermissionDenied.
C22_AcquisitionEnds ==
    /\ [][ ( \/ lastEvent'.op = "mount" /\ inputMode' = "webcam"
             \/ lastEvent' = Event("handleModeChange", "webcam")
                /\ status # "recording" )
           => PendingAcquisitions(St)' = PendingAcquisitions(St) + 1 ]_vars
    /\ [][ ( /\ lastEvent'.op \in { "getUserMediaGranted", "getUserMediaDenied" }
             /\ mountState = "mounted" )
           => Ready(St)' # PermissionDenied(St)' ]_vars
    /\ ( PendingAcquisitions(St) > 0 )
           ~> ( lastEvent.op \in { "getUserMediaGranted", "getUserMediaDenied" } )

\* C23: the stored flags never encode two session states at once: not
\* Recording together with Uploading, not Ready (flag true) together with a
\* stored permission error, not Uploading together with a stored result.
C23_OneSessionState ==
    mountState = "mounted"
        => /\ ~(status = "recording" /\ isProcessing)
           /\ ~(hasPermissions /\ permissionError # EmptyText)
           /\ isProcessing => transcription = EmptyText /\ whisperText = EmptyText

\* C24: at most one artifact is held.  An uploaded file and a finished
\* recording are never held together, and on the mounted screen selecting a
\* file, starting a recording, finishing one and a granted device request each
\* leave no artifact of the other provenance.
C24_OneArtifact ==
    /\ [](~(uploadedFile # NoFile /\ lastRecording # NoBlob))
    /\ [][ mountState = "mounted"
           => /\ ( lastEvent'.op = "handleFileChange" /\ lastEvent'.arg # NoFile )
                 => uploadedFile' = lastEvent'.arg /\ lastRecording' = NoBlob
              /\ ( status' = "recording" /\ status # "recording" )
                 => uploadedFile' = NoFile /\ lastRecording' = NoBlob
              /\ ( lastRecording' # lastRecording /\ lastRecording' # NoBlob )
                 => uploadedFile' = NoFile
              /\ lastEvent'.op = "getUserMediaGranted"
                 => uploadedFile' = NoFile ]_vars

\* C25: every request sent carries the artifact held when it is sent, under
\* the key 'video_file': the selected file under its own name, or the
\* recording just stored under 'recorded_video.webm'.
C25_RequestCarriesHeldArtifact ==
    [][ \A r \in inflight' \ inflight :
          /\ r.field = "video_file"
          /\ \/ /\ r.file # NoFile
                /\ r.file = uploadedFile'
                /\ r.fileName = r.file
                /\ r.blob = NoBlob
             \/ /\ r.blob # NoBlob
                /\ r.blob = lastRecording'
                /\ r.fileName = "recorded_video.webm"
                /\ r.file = NoFile ]_vars

\* C26: a file whose lower-cased name ends with '.mp3', '.wav' or '.m4a' and
\* whose size is at most 50 MB, the maximum itself included, is stored by
\* handleFileSelect as the selected file, and the transcription is cleared.
C26_ValidFileStored ==
    /\ [](acceptedFormats = << << ".", "m", "p", "3" >>, << ".", "w", "a", "v" >>,
                               << ".", "m", "4", "a" >> >>
          /\ maxFileSize = 52428800)
    /\ [][ ( /\ lastAudioEvent'.op = "handleFileSelect"
             /\ HasAcceptedExtension(lastAudioEvent'.file)
             /\ lastAudioEvent'.file.size <= maxFileSize )
           => /\ selectedFile' = lastAudioEvent'.file
              /\ transcription' = EmptyText ]_vars

\* a file of exactly the maximum size, with an upper-case extension, is held
C26_Witness ==
    /\ lastAudioEvent.op = "handleFileSelect"
    /\ selectedFile = [ name |-> << "A", ".", "M", "P", "3" >>, size |-> maxFileSize ]

\* C27: a request for a recording is sent only after the recorder's stop has
\* completed: the request carries the recording of the recorder that was
\* stopped, the status is 'stopped' when it is sent, and once a request for a
\* recording has settled no recorder is held.
C27_SubmitAfterFinalization ==
    /\ [][ \A r \in inflight' \ inflight :
             r.from = "stopRecording"
                 => /\ recorderStopped
                    /\ r.blob = recorderRef
                    /\ mountState = "mounted" => status' = "stopped" ]_vars
    /\ [][ \A r \in inflight \ inflight' :
             r.from = "stopRecording" => recorderRef' = NoRecorder ]_vars

\* C28: every acquire releases first.  A step that calls getUserMedia leaves
\* no stream in the handle and the stream held before it stopped, and a
\* granted request never overwrites a handle whose stream is still live.
C28_AcquireReleasesFirst ==
    /\ [][ PendingAcquisitions(St)' > PendingAcquisitions(St)
           => /\ mediaStreamRef' = NoStream
              /\ mediaStreamRef \notin liveStreams' ]_vars
    /\ [][ lastEvent'.op = "getUserMediaGranted"
           => mediaStreamRef \notin liveStreams ]_vars

\* C29: the encoding of a recording is fixed.  While a recorder exists the
\* mode of the screen does not change and is the mode the recorder was
\* created with, and every downloaded recording of a stopped recorder has the
\* content type and the download name of that mode.
C29_EncodingFixed ==
    /\ []( \A i \in 1 .. Len(rec.downloads) :
             rec.downloads[i].stopped
                 => rec.downloads[i].content = rec.downloads[i].name )
    /\ []( rec.recorderRef # NoRec => rec.recorderRef.mode = rec.mode )
    /\ [][ rec.recorderRef # NoRec => rec.mode' = rec.mode ]_vars

\* C30: on the mounted screen the permission flag and the stream handle
\* agree: hasPermissions is true exactly when a stream is held.
C30_FlagMatchesHandle ==
    mountState = "mounted" => ( hasPermissions <=> mediaStreamRef # NoStream )

\* C31: whenever the status of the mounted screen is 'recording', the input
\* mode is webcam, a stream is held, and a recorder exists that was created on
\* the held stream.
C31_RecordingHasStreamAndRecorder ==
    ( mountState = "mounted" /\ status = "recording" )
        => /\ inputMode = "webcam"
           /\ mediaStreamRef # NoStream
           /\ recorderRef # NoRecorder
           /\ recorderStream = mediaStreamRef

\* C32: on the mounted screen isProcessing is true exactly when a
\* transcription request is in flight.
C32_FlagTracksRequest ==
    mountState = "mounted" => ( isProcessing <=> inflight # {} )

\* C33: once the capture screen is unmounted, no stream it was granted has a
\* track that is still running.
C33_NoStreamAfterUnmount ==
    mountState = "unmounted" => liveStreams = {}

C35_CountdownBounded ==
    /\ [](rec.countdown \in 0 .. timedDuration)
    /\ [](Cardinality(rec.timers) <= 1)
    /\ [][ ( rec' # rec /\ lastRecEvent'.op = "tick" )
             => /\ RecMounted
                /\ rec.status = "recording"
                /\ rec.recorderRef # NoRec
                /\ ~rec.recorderRef.stopped ]_vars

\* C36: handleUploadAndTranscribe with no selected file changes nothing; with
\* a selected file the attempt ends, and it ends with isTranscribing false,
\* the selected file unchanged, and a non-empty transcription: the result text
\* when transcribeAudio resolved, the fixed failure message when it rejected.
C36_TranscribeAttemptEnds ==
    /\ [](selectedFile = NoAudioFile
              => handleUploadAndTranscribe(AudioSt) = AudioSt)
    /\ [][ ( lastAudioEvent'.op = "transcribeSettled"
             /\ pendingTranscribe' # pendingTranscribe )
           => /\ ~isTranscribing'
              /\ transcription' # EmptyText
              /\ transcription' =
                     IF transcribeAudioRejects(lastAudioEvent'.file)
                     THEN << "Sorry, transcription failed. Please try again." >>
                     ELSE TranscriptionResultText(lastAudioEvent'.file)
              /\ selectedFile' = selectedFile
              /\ selectedFile' = lastAudioEvent'.file ]_vars
    /\ ( pendingTranscribe # {} ~> ( pendingTranscribe = {} /\ ~isTranscribing
                                      /\ transcription # EmptyText ) )

\* an attempt on a file whose name makes transcribeAudio reject has ended
C36_Witness ==
    /\ lastAudioEvent.op = "transcribeSettled"
    /\ transcribeAudioRejects(lastAudioEvent.file)
    /\ selectedFile = lastAudioEvent.file
    /\ ~isTranscribing
    /\ transcription = TranscriptionFailedText

====
